---------------------------- MODULE Spec2Model ----------------------------
(***************************************************************************)
(* A model of geekrope/gravity (src/gravity/app.ts): the physical engine   *)
(* (PhysicalEngine, PhysicalBody, ObservableCollection, Utils) and the     *)
(* playground that drives it (timer ticks and mouse handlers).             *)
(*                                                                         *)
(* Numbers.  The program computes with IEEE doubles.  Here a number is an  *)
(* integer, or one of the three non-finite doubles NaN, PosInf, NegInf.    *)
(* Every real-valued result is rounded toward zero onto the integer grid   *)
(* (Quot), which is symmetric under negation as the double operations      *)
(* are.  Units: a length is in pixels, a time in milliseconds (Date.now),  *)
(* a mass in quanta of weightUnit / 50 = 2e13 kg (the amount addBodyMass   *)
(* adds per tick), so that G = 6.68e-11 * 2e13 = 1336.                     *)
(***************************************************************************)
EXTENDS Integers, Sequences, FiniteSets, TLC

(***************************************************************************)
(* Doubles                                                                 *)
(***************************************************************************)
NaN == 2000000003

PosInf == 2000000001

NegInf == 2000000002

IsFinite(a) == a \notin {NaN, PosInf, NegInf}

IsInf(a) == a \in {PosInf, NegInf}

\* the sign of a double that is not NaN; zero counts as +0
Sign(a) ==
    IF a = PosInf THEN 1
    ELSE IF a = NegInf THEN -1
    ELSE IF a < 0 THEN -1 ELSE 1

InfOf(s) == IF s < 0 THEN NegInf ELSE PosInf

\* integer quotient rounded toward zero (b # 0)
Quot(a, b) ==
    LET q == (IF a < 0 THEN 0 - a ELSE a) \div (IF b < 0 THEN 0 - b ELSE b)
    IN  IF (a < 0) = (b < 0) THEN q ELSE 0 - q

DNeg(a) ==
    IF a = NaN THEN NaN
    ELSE IF a = PosInf THEN NegInf
    ELSE IF a = NegInf THEN PosInf
    ELSE 0 - a

DAdd(a, b) ==
    IF a = NaN \/ b = NaN THEN NaN
    ELSE IF IsInf(a) THEN (IF IsInf(b) /\ b # a THEN NaN ELSE a)
    ELSE IF IsInf(b) THEN b
    ELSE a + b

DSub(a, b) == DAdd(a, DNeg(b))

DMul(a, b) ==
    IF a = NaN \/ b = NaN THEN NaN
    ELSE IF IsInf(a) \/ IsInf(b)
         THEN (IF a = 0 \/ b = 0 THEN NaN ELSE InfOf(Sign(a) * Sign(b)))
    ELSE a * b

DDiv(a, b) ==
    IF a = NaN \/ b = NaN THEN NaN
    ELSE IF IsInf(a) THEN (IF IsInf(b) THEN NaN ELSE InfOf(Sign(a) * Sign(b)))
    ELSE IF IsInf(b) THEN 0
    ELSE IF b = 0 THEN (IF a = 0 THEN NaN ELSE InfOf(Sign(a)))
    ELSE Quot(a, b)

\* Math.min
DMin(a, b) ==
    IF a = NaN \/ b = NaN THEN NaN
    ELSE IF a = NegInf \/ b = NegInf THEN NegInf
    ELSE IF a = PosInf THEN b
    ELSE IF b = PosInf THEN a
    ELSE IF a < b THEN a ELSE b

\* Math.ceil(a / b) for finite a and b > 0
CeilDiv(a, b) == 0 - ((0 - a) \div b)

RECURSIVE SqrtBetween(_, _, _)
\* the largest r in lo..hi with r * r <= n
SqrtBetween(n, lo, hi) ==
    IF lo >= hi THEN lo
    ELSE LET mid == (lo + hi + 1) \div 2
         IN  IF mid * mid <= n THEN SqrtBetween(n, mid, hi)
             ELSE SqrtBetween(n, lo, mid - 1)

\* Math.sqrt
Sqrt(a) ==
    IF a = NaN \/ a = NegInf THEN NaN
    ELSE IF a = PosInf THEN PosInf
    ELSE IF a < 0 THEN NaN
    ELSE SqrtBetween(a, 0, IF a < 46340 THEN a ELSE 46340)

(***************************************************************************)
(* DOMPoint and Utils                                                      *)
(***************************************************************************)
DOMPoint(px, py) == [x |-> px, y |-> py]

Zero == DOMPoint(0, 0)

IsFinitePoint(p) == IsFinite(p.x) /\ IsFinite(p.y)

distance(point1, point2) ==
    Sqrt(DAdd(DMul(DSub(point1.x, point2.x), DSub(point1.x, point2.x)),
             DMul(DSub(point1.y, point2.y), DSub(point1.y, point2.y))))

timeUnit == 1000

\* the right-endpoint rule for the trapezium rule
rectangleArea(base1, base2, height) == DDiv(DMul(base2, height), timeUnit)

\* (base1 + base2) * height / 2.  The height is a time in seconds; it is
\* carried in milliseconds and the call site's division by timeUnit is
\* done here, last, so that a fraction of a second is not rounded to zero.
trapezeArea(base1, base2, height) ==
    DDiv(DMul(DAdd(base1, base2), height), 2 * timeUnit)

addVectors(vector1, vector2) ==
    DOMPoint(DAdd(vector1.x, vector2.x), DAdd(vector1.y, vector2.y))

\* multiplyVectorByScalar(vector, 1 / divisor): the reciprocal of 0 is
\* Infinity, and the product with a finite reciprocal is the quotient
multiplyVectorByReciprocal(vector, divisor) ==
    IF divisor = 0
    THEN DOMPoint(DMul(vector.x, PosInf), DMul(vector.y, PosInf))
    ELSE DOMPoint(DDiv(vector.x, divisor), DDiv(vector.y, divisor))

(***************************************************************************)
(* BodyParameters, ObservableCollection, PhysicalBody                      *)
(***************************************************************************)
BodyParameters(acceleration, velocity, baseVelocity, movement) ==
    [acceleration |-> acceleration, velocity |-> velocity,
     baseVelocity |-> baseVelocity, movement |-> movement]

fullVelocity(parameters) ==
    addVectors(parameters.baseVelocity, parameters.velocity)

maxPathLength == 255

RECURSIVE reducePath(_)
\* ObservableCollection.delete: splice(index, 1), then the changed event,
\* which PhysicalBody binds to reducePath.  index counts from 0.
delete(collection, index) ==
    reducePath(IF index < Len(collection)
               THEN SubSeq(collection, 1, index)
                    \o SubSeq(collection, index + 2, Len(collection))
               ELSE collection)

\* reducePath with the comparison slipped from > to >=
reducePathAtLength(collection) ==
    IF Len(collection) >= maxPathLength
    THEN delete(collection, 0)
    ELSE collection

reducePath(collection) ==
    IF Len(collection) > maxPathLength
    THEN delete(collection, 0)
    ELSE collection

\* add without the changed event
addWithoutEvent(collection, value) == Append(collection, value)

\* ObservableCollection.add: push, then the changed event
add(collection, value) == reducePath(Append(collection, value))

\* A body.  held is not a field of the program: it records every position
\* the body has held, the current one last, for the statements about the
\* path.
PhysicalBody(position, mass, parameters) ==
    [force |-> Zero, parameters |-> parameters, path |-> << >>,
     position |-> position, mass |-> mass, held |-> <<position>>]

\* the setter with its two statements exchanged: the new position is
\* pushed to the path
setPositionPushesNew(body, position) ==
    [body EXCEPT !.path = add(@, position),
                 !.position = position,
                 !.held = Append(@, position)]

\* set position(position)
setPosition(body, position) ==
    [body EXCEPT !.path = add(@, body.position),
                 !.position = position,
                 !.held = Append(@, position)]

addForce(body, force) == [body EXCEPT !.force = addVectors(@, force)]

setForce(body, force) == [body EXCEPT !.force = force]

\* clearForces which leaves the force as it is
clearForcesKeeps(body) == body

clearForces(body) == [body EXCEPT !.force = Zero]

(***************************************************************************)
(* PhysicalEngine.  A body is named by its identity (a number); heap maps  *)
(* the identities of the bodies constructed so far to their fields, and    *)
(* the engine's array _bodyes is a sequence of identities.  The private    *)
(* operations work on a memory m = [heap, thrown]: thrown is set by        *)
(* `throw new Error("Can't find body")`, after which nothing else runs.    *)
(***************************************************************************)
G == 1336

maxTimeDelta == 10

weightUnit == 50

RECURSIVE IndexFrom(_, _, _)
IndexFrom(array, value, i) ==
    IF i > Len(array) THEN -1
    ELSE IF array[i] = value THEN i - 1
    ELSE IndexFrom(array, value, i + 1)

\* Array.indexOf: the first index (from 0) holding value, or -1
indexOf(array, value) == IndexFrom(array, value, 1)

\* exists with the index taken for a truth value
existsTruthy(array, body) == indexOf(array, body) # 0

\* exists with the comparison slipped from != -1 to >= -1
existsAtLeastMinusOne(array, body) == indexOf(array, body) >= -1

exists(array, body) == indexOf(array, body) # -1

getBodyIndex(array, body) == indexOf(array, body)

formula(mass1, mass2, dist) ==
    DDiv(DMul(DMul(G, mass1), mass2), DMul(dist, dist))

\* the force vector with the angle taken from the influencing body to the
\* influenced one: atan2(-dy, -dx)
forceVectorAway(forceValue, dx, dy, dist) ==
    IF dx = NaN \/ dy = NaN THEN DOMPoint(NaN, NaN)
    ELSE IF IsInf(dx) \/ IsInf(dy)
         THEN DOMPoint(DMul(forceValue, 1), DMul(forceValue, 1))
    ELSE IF dx = 0 /\ dy = 0
         THEN DOMPoint(DMul(forceValue, 1), DMul(forceValue, 0))
    ELSE DOMPoint(DDiv(DMul(forceValue, DNeg(dx)), dist),
                  DDiv(DMul(forceValue, DNeg(dy)), dist))

\* new DOMPoint(forceValue * Math.cos(angle), forceValue * Math.sin(angle))
\* with angle = Math.atan2(dy, dx): the cosine is dx / dist and the sine
\* dy / dist; atan2(0, 0) is 0, with cosine 1 and sine 0; with an infinite
\* dx or dy the cosine and sine are finite and forceValue is 0 or NaN.
forceVector(forceValue, dx, dy, dist) ==
    IF dx = NaN \/ dy = NaN THEN DOMPoint(NaN, NaN)
    ELSE IF IsInf(dx) \/ IsInf(dy)
         THEN DOMPoint(DMul(forceValue, 1), DMul(forceValue, 1))
    ELSE IF dx = 0 /\ dy = 0
         THEN DOMPoint(DMul(forceValue, 1), DMul(forceValue, 0))
    ELSE DOMPoint(DDiv(DMul(forceValue, dx), dist),
                  DDiv(DMul(forceValue, dy), dist))

RECURSIVE forceLoopWithSelf(_, _, _, _, _)
\* the loop without the test that skips the influenced body itself
forceLoopWithSelf(heap, array, influencedBody, influencedBodyIndex, influencingBodyIndex) ==
    IF influencingBodyIndex < Len(array)
    THEN LET influenced == heap[influencedBody]
             influencing == heap[array[influencingBodyIndex + 1]]
             dist == distance(influenced.position, influencing.position)
             forceValue == formula(influenced.mass, influencing.mass, dist)
             vector == forceVector(
                 forceValue,
                 DSub(influencing.position.x, influenced.position.x),
                 DSub(influencing.position.y, influenced.position.y),
                 dist)
         IN  forceLoopWithSelf(
                 [heap EXCEPT ![influencedBody] = addForce(@, vector)],
                 array, influencedBody, influencedBodyIndex,
                 influencingBodyIndex + 1)
    ELSE heap

RECURSIVE forceLoop(_, _, _, _, _)
\* the for loop of computeForce, from influencingBodyIndex (from 0) on
forceLoop(heap, array, influencedBody, influencedBodyIndex, influencingBodyIndex) ==
    IF influencingBodyIndex < Len(array)
    THEN IF influencingBodyIndex # influencedBodyIndex
         THEN LET influenced == heap[influencedBody]
                  influencing == heap[array[influencingBodyIndex + 1]]
                  dist == distance(influenced.position, influencing.position)
                  forceValue == formula(influenced.mass, influencing.mass, dist)
                  vector == forceVector(
                      forceValue,
                      DSub(influencing.position.x, influenced.position.x),
                      DSub(influencing.position.y, influenced.position.y),
                      dist)
              IN  forceLoop(
                      [heap EXCEPT ![influencedBody] = addForce(@, vector)],
                      array, influencedBody, influencedBodyIndex,
                      influencingBodyIndex + 1)
         ELSE forceLoop(heap, array, influencedBody, influencedBodyIndex,
                        influencingBodyIndex + 1)
    ELSE heap

computeForce(m, array, influencedBody) ==
    LET influencedBodyIndex == getBodyIndex(array, influencedBody)
    IN  IF influencedBodyIndex # -1
        THEN [m EXCEPT !.heap = forceLoop(
                 [m.heap EXCEPT ![influencedBody] = clearForces(@)],
                 array, influencedBody, influencedBodyIndex, 0)]
        ELSE [m EXCEPT !.thrown = TRUE]

\* the value returned, and whether the operation threw
computeAcceleration(m, array, body) ==
    IF exists(array, body)
    THEN [thrown |-> FALSE,
          value |-> multiplyVectorByReciprocal(m.heap[body].force,
                                               m.heap[body].mass)]
    ELSE [thrown |-> TRUE, value |-> Zero]

\* computeVelocity with the base velocity added to the integral
computeVelocityWithBase(m, array, body, timeDelta, acceleration) ==
    IF exists(array, body)
    THEN [thrown |-> FALSE,
          value |-> addVectors(
              DOMPoint(
                  trapezeArea(m.heap[body].parameters.acceleration.x,
                              acceleration.x, timeDelta),
                  trapezeArea(m.heap[body].parameters.acceleration.y,
                              acceleration.y, timeDelta)),
              m.heap[body].parameters.baseVelocity)]
    ELSE [thrown |-> TRUE, value |-> Zero]

computeVelocity(m, array, body, timeDelta, acceleration) ==
    IF exists(array, body)
    THEN [thrown |-> FALSE,
          value |-> DOMPoint(
              trapezeArea(m.heap[body].parameters.acceleration.x,
                          acceleration.x, timeDelta),
              trapezeArea(m.heap[body].parameters.acceleration.y,
                          acceleration.y, timeDelta))]
    ELSE [thrown |-> TRUE, value |-> Zero]

computeMovement(m, array, body, timeDelta, velocity) ==
    IF exists(array, body)
    THEN [thrown |-> FALSE,
          value |-> DOMPoint(
              trapezeArea(m.heap[body].parameters.velocity.x,
                          velocity.x, timeDelta),
              trapezeArea(m.heap[body].parameters.velocity.y,
                          velocity.y, timeDelta))]
    ELSE [thrown |-> TRUE, value |-> Zero]

\* a sub-step which stores its own movement in place of the sum
subStepReplacesMovement(m, array, body, computedTimeDelta) ==
    LET m1 == computeForce(m, array, body)
        acceleration == computeAcceleration(m1, array, body)
        velocity == computeVelocity(m1, array, body, computedTimeDelta,
                                    acceleration.value)
        movement == computeMovement(
            m1, array, body, computedTimeDelta,
            addVectors(velocity.value,
                       m1.heap[body].parameters.baseVelocity))
        moved == setPosition(m1.heap[body],
                             addVectors(movement.value, m1.heap[body].position))
    IN  IF m1.thrown \/ acceleration.thrown \/ velocity.thrown \/ movement.thrown
        THEN [m1 EXCEPT !.thrown = TRUE]
        ELSE [m1 EXCEPT !.heap[body] =
                 [moved EXCEPT !.parameters = BodyParameters(
                     acceleration.value,
                     addVectors(velocity.value, moved.parameters.velocity),
                     moved.parameters.baseVelocity,
                     movement.value)]]

\* a sub-step which stores the full velocity as the base velocity
subStepFoldsBaseVelocity(m, array, body, computedTimeDelta) ==
    LET m1 == computeForce(m, array, body)
        acceleration == computeAcceleration(m1, array, body)
        velocity == computeVelocity(m1, array, body, computedTimeDelta,
                                    acceleration.value)
        movement == computeMovement(
            m1, array, body, computedTimeDelta,
            addVectors(velocity.value,
                       m1.heap[body].parameters.baseVelocity))
        moved == setPosition(m1.heap[body],
                             addVectors(movement.value, m1.heap[body].position))
    IN  IF m1.thrown \/ acceleration.thrown \/ velocity.thrown \/ movement.thrown
        THEN [m1 EXCEPT !.thrown = TRUE]
        ELSE [m1 EXCEPT !.heap[body] =
                 [moved EXCEPT !.parameters = BodyParameters(
                     acceleration.value,
                     addVectors(velocity.value, moved.parameters.velocity),
                     addVectors(velocity.value, moved.parameters.baseVelocity),
                     addVectors(movement.value, moved.parameters.movement))]]

\* the body of update's for loop: one sub-step of one body
subStep(m, array, body, computedTimeDelta) ==
    LET m1 == computeForce(m, array, body)
        acceleration == computeAcceleration(m1, array, body)
        velocity == computeVelocity(m1, array, body, computedTimeDelta,
                                    acceleration.value)
        movement == computeMovement(
            m1, array, body, computedTimeDelta,
            addVectors(velocity.value,
                       m1.heap[body].parameters.baseVelocity))
        moved == setPosition(m1.heap[body],
                             addVectors(movement.value, m1.heap[body].position))
    IN  IF m1.thrown \/ acceleration.thrown \/ velocity.thrown \/ movement.thrown
        THEN [m1 EXCEPT !.thrown = TRUE]
        ELSE [m1 EXCEPT !.heap[body] =
                 [moved EXCEPT !.parameters = BodyParameters(
                     acceleration.value,
                     addVectors(velocity.value, moved.parameters.velocity),
                     moved.parameters.baseVelocity,
                     addVectors(movement.value, moved.parameters.movement))]]

\* every sub-step as long as maxTimeDelta: the Math.min left out
computedTimeDeltaWhole(timeDelta, chunk) == maxTimeDelta

\* const computedTimeDelta = Math.min(this.maxTimeDelta,
\*                                    timeDelta - chunk * this.maxTimeDelta)
computedTimeDelta(timeDelta, chunk) ==
    DMin(maxTimeDelta, timeDelta - chunk * maxTimeDelta)

RECURSIVE chunkRange(_, _, _, _, _, _)
\* the iterations from <= chunk < to of update's for loop, in order (the
\* range is halved only to keep the evaluation shallow)
chunkRange(m, array, body, timeDelta, from, to) ==
    IF m.thrown \/ from >= to THEN m
    ELSE IF to - from = 1
         THEN subStep(m, array, body, computedTimeDelta(timeDelta, from))
    ELSE chunkRange(
             chunkRange(m, array, body, timeDelta, from, (from + to) \div 2),
             array, body, timeDelta, (from + to) \div 2, to)

\* the loop bound with Math.floor for Math.ceil
chunkCountFloor(timeDelta) ==
    IF timeDelta \div maxTimeDelta > 0
    THEN timeDelta \div maxTimeDelta
    ELSE 0

\* the loop as a do-while, which runs its body once before the test
chunkCountAtLeastOne(timeDelta) ==
    IF CeilDiv(timeDelta, maxTimeDelta) > 1
    THEN CeilDiv(timeDelta, maxTimeDelta)
    ELSE 1

\* how many sub-steps the for loop runs: chunk = 0 .. while
\* chunk < Math.ceil(timeDelta / maxTimeDelta)
chunkCount(timeDelta) ==
    IF CeilDiv(timeDelta, maxTimeDelta) > 0
    THEN CeilDiv(timeDelta, maxTimeDelta)
    ELSE 0

\* for (let chunk = 0; chunk < Math.ceil(timeDelta / maxTimeDelta); chunk++)
chunkLoop(m, array, body, timeDelta) ==
    chunkRange(m, array, body, timeDelta, 0, chunkCount(timeDelta))

RECURSIVE forEachBody(_, _, _, _)
\* this._bodyes.forEach, from index i (from 1) on
forEachBody(m, array, timeDelta, i) ==
    IF ~m.thrown /\ i <= Len(array)
    THEN forEachBody(chunkLoop(m, array, array[i], timeDelta),
                     array, timeDelta, i + 1)
    ELSE m

\* the bodies after update() has integrated timeDelta milliseconds
updateBodies(heap, array, timeDelta) ==
    forEachBody([heap |-> heap, thrown |-> FALSE], array, timeDelta, 1)

(***************************************************************************)
(* The program's state                                                     *)
(***************************************************************************)
VARIABLES
    clock,            \* Date.now()
    heap,             \* the bodies constructed so far, by identity
    bodyes,           \* PhysicalEngine._bodyes
    timeOffset,       \* PhysicalEngine._timeOffset
    speed,            \* PhysicalEngine._speed
    editedBody,       \* Playground._editedBody (0: undefined)
    onUpdate,         \* Playground._onUpdate
    mouseTimeOffset,  \* timeOffset of mouseMoveHandler's closure
    uncaught,         \* an Error escaped a handler
    scene,            \* which bodies the engine was constructed with
    anchor,           \* clock value at construction or the last reset
    integrated,       \* sum of update()'s timeDelta since anchor
    lastElapsed,      \* the timeDelta of the last update() (-1: none yet)
    ticks             \* how many times the timer has fired

vars == <<clock, heap, bodyes, timeOffset, speed, editedBody, onUpdate,
          mouseTimeOffset, uncaught, scene, anchor, integrated,
          lastElapsed, ticks>>

(***************************************************************************)
(* The arrays of bodies an engine is constructed with                      *)
(***************************************************************************)
Scene(name) ==
    CASE name = "onload" ->
           <<PhysicalBody(DOMPoint(0, 0), 1000,
                          BodyParameters(Zero, Zero, Zero, Zero)),
             PhysicalBody(DOMPoint(200, 0), 50,
                          BodyParameters(Zero, Zero, DOMPoint(0, 100), Zero)),
             PhysicalBody(DOMPoint(-200, 0), 50,
                          BodyParameters(Zero, Zero, DOMPoint(0, -100), Zero))>>
      [] name = "pair" ->
           <<PhysicalBody(DOMPoint(-4, 0), 1000,
                          BodyParameters(Zero, Zero, Zero, Zero)),
             PhysicalBody(DOMPoint(4, 0), 1000,
                          BodyParameters(Zero, Zero, Zero, Zero))>>
      [] name = "diagonal" ->
           <<PhysicalBody(DOMPoint(-3, 4), 900,
                          BodyParameters(Zero, Zero, Zero, Zero)),
             PhysicalBody(DOMPoint(3, -4), 900,
                          BodyParameters(Zero, Zero, Zero, Zero))>>
      [] name = "orbit" ->
           <<PhysicalBody(DOMPoint(0, 0), 1200,
                          BodyParameters(Zero, Zero, Zero, Zero)),
             PhysicalBody(DOMPoint(6, 0), 300,
                          BodyParameters(Zero, Zero, DOMPoint(0, 400), Zero))>>
      [] name = "lone" ->
           <<PhysicalBody(DOMPoint(5, -3), 700,
                          BodyParameters(Zero, Zero, Zero, Zero))>>
      [] name = "drift" ->
           <<PhysicalBody(DOMPoint(5, -3), 700,
                          BodyParameters(Zero, Zero, DOMPoint(400, -200), Zero))>>
      [] name = "coincident" ->
           <<PhysicalBody(DOMPoint(2, -1), 600,
                          BodyParameters(Zero, Zero, Zero, Zero)),
             PhysicalBody(DOMPoint(2, -1), 400,
                          BodyParameters(Zero, Zero, Zero, Zero))>>
      [] OTHER -> << >>

(***************************************************************************)
(* PhysicalEngine.update and the handlers, on a record s of the fields     *)
(* they read and write                                                     *)
(***************************************************************************)
\* update(); the clock advances by during between its two Date.now() calls
update(s, during) ==
    LET timeDelta == (s.clock - s.timeOffset) * s.speed
        m == updateBodies(s.heap, s.bodyes, timeDelta)
    IN  IF m.thrown
        THEN [s EXCEPT !.heap = m.heap, !.uncaught = TRUE]
        ELSE [s EXCEPT !.heap = m.heap,
                       !.clock = s.clock + during,
                       !.timeOffset = s.clock + during,
                       !.integrated = @ + timeDelta,
                       !.lastElapsed = timeDelta]

\* resetTimeOffset which clears the timestamp instead of setting it to now
resetTimeOffsetToZero(s) == [s EXCEPT !.timeOffset = 0, !.anchor = s.clock,
                                      !.integrated = 0]

resetTimeOffset(s) == [s EXCEPT !.timeOffset = s.clock, !.anchor = s.clock,
                                !.integrated = 0]

\* draw: update(), then the rendering, which changes nothing modelled
draw(s, during) == update(s, during)

addBodyMass(s) ==
    IF s.editedBody # 0
    THEN [s EXCEPT !.heap[s.editedBody].mass = @ + weightUnit \div 50]
    ELSE s

RECURSIVE runHandlers(_, _, _)
\* the setInterval callback: this._onUpdate.forEach(handler => handler(this))
runHandlers(s, during, i) ==
    IF ~s.uncaught /\ i <= Len(s.onUpdate)
    THEN runHandlers(IF s.onUpdate[i] = "draw" THEN draw(s, during)
                     ELSE addBodyMass(s),
                     during, i + 1)
    ELSE s

\* addEventListener which puts the handler first
addEventListenerUnshift(handlers, handler) == <<handler>> \o handlers

addEventListener(handlers, handler) == Append(handlers, handler)

\* this._onUpdate.splice(this._onUpdate.indexOf(handler)): with one
\* argument splice removes everything from that index on, and an index of
\* -1 counts from the end
removeEventListener(handlers, handler) ==
    LET index == indexOf(handlers, handler)
        start == IF index < 0
                 THEN (IF Len(handlers) + index < 0 THEN 0
                       ELSE Len(handlers) + index)
                 ELSE index
    IN  SubSeq(handlers, 1, start)

State ==
    [clock |-> clock, heap |-> heap, bodyes |-> bodyes,
     timeOffset |-> timeOffset, speed |-> speed, editedBody |-> editedBody,
     onUpdate |-> onUpdate, uncaught |-> uncaught, anchor |-> anchor,
     integrated |-> integrated, lastElapsed |-> lastElapsed]

Becomes(s) ==
    /\ clock' = s.clock
    /\ heap' = s.heap
    /\ bodyes' = s.bodyes
    /\ timeOffset' = s.timeOffset
    /\ speed' = s.speed
    /\ editedBody' = s.editedBody
    /\ onUpdate' = s.onUpdate
    /\ uncaught' = s.uncaught
    /\ anchor' = s.anchor
    /\ integrated' = s.integrated
    /\ lastElapsed' = s.lastElapsed

NewBody == Cardinality(DOMAIN heap) + 1

(***************************************************************************)
(* window.onload, the timer and the mouse.  The operations are written     *)
(* once, with the bound of each as a parameter; the specifications below   *)
(* fix the bounds.                                                         *)
(***************************************************************************)
\* new PhysicalEngine(Scene(scene)), new Playground(...), the listeners
Constructed(scenes) ==
    /\ scene \in scenes
    /\ clock = 0
    /\ heap = [i \in 1..Len(Scene(scene)) |-> Scene(scene)[i]]
    /\ bodyes = [i \in 1..Len(Scene(scene)) |-> i]
    /\ timeOffset = 0
    /\ speed = 1
    /\ editedBody = 0
    /\ onUpdate = <<"draw">>
    /\ mouseTimeOffset = 0
    /\ uncaught = FALSE
    /\ anchor = 0
    /\ integrated = 0
    /\ lastElapsed = -1
    /\ ticks = 0

\* time passes between two events
PassBy(steps, maxClock) ==
    /\ \E step \in steps :
         /\ clock + step <= maxClock
         /\ clock' = clock + step
    /\ UNCHANGED <<heap, bodyes, timeOffset, speed, editedBody, onUpdate,
                   mouseTimeOffset, uncaught, scene, anchor, integrated,
                   lastElapsed, ticks>>

\* the callback of setInterval(..., 10)
Tick(maxTicks, maxDuring, maxClock) ==
    /\ ~uncaught
    /\ ticks < maxTicks
    /\ ticks' = ticks + 1
    /\ \E during \in 0..maxDuring :
         /\ clock + during <= maxClock
         /\ Becomes(runHandlers(State, during, 1))
    /\ UNCHANGED <<mouseTimeOffset, scene>>

\* the listener of mousedown pushing the new body at once
DownIntoCollection(pointer, maxCreated) ==
    /\ Cardinality(DOMAIN heap) - Len(Scene(scene)) < maxCreated
    /\ \E point \in pointer :
         heap' = heap @@ (NewBody :>
                    PhysicalBody(point, 0, BodyParameters(Zero, Zero, Zero, Zero)))
    /\ editedBody' = NewBody
    /\ bodyes' = Append(bodyes, NewBody)
    /\ onUpdate' = addEventListener(onUpdate, "addBodyMass")
    /\ UNCHANGED <<clock, timeOffset, speed, mouseTimeOffset, uncaught,
                   scene, anchor, integrated, lastElapsed, ticks>>

\* the listener made by mouseDownHandler
Down(pointer, maxCreated) ==
    /\ Cardinality(DOMAIN heap) - Len(Scene(scene)) < maxCreated
    /\ \E point \in pointer :
         heap' = heap @@ (NewBody :>
                    PhysicalBody(point, 0, BodyParameters(Zero, Zero, Zero, Zero)))
    /\ editedBody' = NewBody
    /\ onUpdate' = addEventListener(onUpdate, "addBodyMass")
    /\ UNCHANGED <<clock, bodyes, timeOffset, speed, mouseTimeOffset, uncaught,
                   scene, anchor, integrated, lastElapsed, ticks>>

\* the baseVelocity mouseMoveHandler computes: the displacement divided by
\* timeDelta = (Date.now() - timeOffset) / 100
dragVelocity(from, to, elapsed) ==
    DOMPoint(DDiv(DMul(DSub(to.x, from.x), 100), elapsed),
             DDiv(DMul(DSub(to.y, from.y), 100), elapsed))

\* the listener made by mouseMoveHandler
Move(pointer, maxMoves) ==
    /\ \E point \in pointer :
         IF editedBody # 0
         THEN LET body == heap[editedBody]
                  parameters == BodyParameters(Zero, Zero,
                      dragVelocity(body.position, point, clock - mouseTimeOffset),
                      Zero)
              IN  /\ Len(body.held) <= maxMoves
                  /\ heap' = [heap EXCEPT ![editedBody] =
                         setPosition([body EXCEPT !.parameters = parameters], point)]
                  /\ mouseTimeOffset' = clock
         ELSE UNCHANGED <<heap, mouseTimeOffset>>
    /\ UNCHANGED <<clock, bodyes, timeOffset, speed, editedBody, onUpdate,
                   uncaught, scene, anchor, integrated, lastElapsed, ticks>>

\* mouseUpHandler which redraws at once: it calls draw, and so update()
MouseUpThenDraw ==
    /\ IF editedBody # 0
       THEN Becomes(draw([State EXCEPT
                !.bodyes = Append(bodyes, editedBody),
                !.onUpdate = removeEventListener(onUpdate, "addBodyMass"),
                !.editedBody = 0], 0))
       ELSE UNCHANGED <<clock, heap, bodyes, timeOffset, speed, editedBody,
                        onUpdate, uncaught, anchor, integrated, lastElapsed>>
    /\ UNCHANGED <<mouseTimeOffset, scene, ticks>>

\* mouseUpHandler with unshift for push
MouseUpUnshift ==
    /\ IF editedBody # 0
       THEN /\ bodyes' = <<editedBody>> \o bodyes
            /\ onUpdate' = removeEventListener(onUpdate, "addBodyMass")
            /\ editedBody' = 0
       ELSE UNCHANGED <<bodyes, onUpdate, editedBody>>
    /\ UNCHANGED <<clock, heap, timeOffset, speed, mouseTimeOffset, uncaught,
                   scene, anchor, integrated, lastElapsed, ticks>>

\* mouseUpHandler without `this.editedBody = undefined`
MouseUpKeepsEditedBody ==
    /\ IF editedBody # 0
       THEN /\ bodyes' = Append(bodyes, editedBody)
            /\ onUpdate' = removeEventListener(onUpdate, "addBodyMass")
       ELSE UNCHANGED <<bodyes, onUpdate>>
    /\ UNCHANGED <<clock, heap, timeOffset, speed, editedBody, mouseTimeOffset,
                   uncaught, scene, anchor, integrated, lastElapsed, ticks>>

\* the listener made by mouseUpHandler
MouseUp ==
    /\ IF editedBody # 0
       THEN /\ bodyes' = Append(bodyes, editedBody)
            /\ onUpdate' = removeEventListener(onUpdate, "addBodyMass")
            /\ editedBody' = 0
       ELSE UNCHANGED <<bodyes, onUpdate, editedBody>>
    /\ UNCHANGED <<clock, heap, timeOffset, speed, mouseTimeOffset, uncaught,
                   scene, anchor, integrated, lastElapsed, ticks>>

\* set speed(value)
SetSpeed(speeds) ==
    /\ \E value \in speeds : value # speed /\ speed' = value
    /\ UNCHANGED <<clock, heap, bodyes, timeOffset, editedBody, onUpdate,
                   mouseTimeOffset, uncaught, scene, anchor, integrated,
                   lastElapsed, ticks>>

\* resetTimeOffset()
ResetTimeOffset ==
    /\ timeOffset # clock
    /\ Becomes(resetTimeOffset(State))
    /\ UNCHANGED <<mouseTimeOffset, scene, ticks>>

(***************************************************************************)
(* Spec: the application, from window.onload on                            *)
(***************************************************************************)
MaxClock == 10

MaxTicks == 2

MaxCreated == 1

MaxMoves == 1

\* by how much the clock may advance while one update() executes
MaxUpdateTime == 1

\* how far the clock advances between events
ClockSteps == {5, 10}

\* where the pointer is at a mouse event (relative to the visual offset):
\* it goes down at (0, 6) and sweeps to the right, three pixels per event
Pointer ==
    {DOMPoint(IF editedBody = 0 THEN 0 ELSE 3 * Len(heap[editedBody].held), 6)}

Scenes == {"onload", "pair"}

Init == Constructed(Scenes)

Pass == PassBy(ClockSteps, MaxClock)

TimerTick == Tick(MaxTicks, MaxUpdateTime, MaxClock)

MouseDown == Down(Pointer, MaxCreated)

MouseMove == Move(Pointer, MaxMoves)

Next == Pass \/ TimerTick \/ MouseDown \/ MouseMove \/ MouseUp

Spec == Init /\ [][Next]_vars

(***************************************************************************)
(* SpecEngine: a PhysicalEngine alone, constructed with any of the scenes  *)
(* and driven through its public operations (update() by way of draw)      *)
(***************************************************************************)
EngineMaxClock == 20

EngineMaxTicks == 2

EngineClockSteps == {5, 10, 20}

\* a negative speed makes the elapsed time of update() negative
EngineSpeeds == {-1, 1, 2}

EngineScenes ==
    {"onload", "pair", "diagonal", "orbit", "lone", "drift", "coincident",
     "empty"}

EngineInit == Constructed(EngineScenes)

EnginePass == PassBy(EngineClockSteps, EngineMaxClock)

EngineUpdate == Tick(EngineMaxTicks, MaxUpdateTime, EngineMaxClock)

EngineSetSpeed == SetSpeed(EngineSpeeds)

EngineNext == EnginePass \/ EngineUpdate \/ EngineSetSpeed \/ ResetTimeOffset

SpecEngine == EngineInit /\ [][EngineNext]_vars

(***************************************************************************)
(* SpecTrail: one long update(), which assigns a body more positions than  *)
(* a path holds.  The pointer sweeps to the right, one pixel per event.    *)
(***************************************************************************)
TrailMaxClock == 2560

TrailMaxTicks == 2

TrailMaxMoves == 1

TrailMaxCreated == 1

TrailClockSteps == {2560}

TrailScenes == {"drift"}

TrailPointer ==
    {DOMPoint(IF editedBody = 0 THEN 0 ELSE Len(heap[editedBody].held), 6)}

TrailInit == Constructed(TrailScenes)

TrailPass == PassBy(TrailClockSteps, TrailMaxClock)

TrailTick == Tick(TrailMaxTicks, 0, TrailMaxClock)

TrailDown == Down(TrailPointer, TrailMaxCreated)

TrailMove == Move(TrailPointer, TrailMaxMoves)

TrailNext == TrailPass \/ TrailTick \/ TrailDown \/ TrailMove \/ MouseUp

SpecTrail == TrailInit /\ [][TrailNext]_vars

(***************************************************************************)
(* SpecDrag: one long drag, which assigns the edited body more positions   *)
(* than a path holds                                                       *)
(***************************************************************************)
DragMaxClock == 10

DragMaxTicks == 2

DragMaxMoves == 257

DragMaxCreated == 1

DragClockSteps == {10}

DragInit == Constructed(TrailScenes)

DragPass == PassBy(DragClockSteps, DragMaxClock)

DragTick == Tick(DragMaxTicks, 0, DragMaxClock)

DragDown == Down(TrailPointer, DragMaxCreated)

DragMove == Move(TrailPointer, DragMaxMoves)

DragNext == DragPass \/ DragTick \/ DragDown \/ DragMove \/ MouseUp

SpecDrag == DragInit /\ [][DragNext]_vars

(***************************************************************************)
(* SpecForce: an engine of several bodies which only the timer drives      *)
(***************************************************************************)
ForceMaxClock == 20

ForceMaxTicks == 2

ForceClockSteps == {5, 10}

ForceScenes == {"onload", "pair", "diagonal", "orbit", "coincident"}

ForceInit == Constructed(ForceScenes)

ForcePass == PassBy(ForceClockSteps, ForceMaxClock)

ForceUpdate == Tick(ForceMaxTicks, MaxUpdateTime, ForceMaxClock)

ForceNext == ForcePass \/ ForceUpdate

SpecForce == ForceInit /\ [][ForceNext]_vars

(***************************************************************************)
(* SpecPress: the mouse pressed more than once, with and without a release *)
(* between, over a lone body                                               *)
(***************************************************************************)
PressMaxClock == 10

PressMaxTicks == 2

PressMaxCreated == 2

PressMaxMoves == 1

PressClockSteps == {10}

PressScenes == {"lone"}

PressInit == Constructed(PressScenes)

PressPass == PassBy(PressClockSteps, PressMaxClock)

PressTick == Tick(PressMaxTicks, 0, PressMaxClock)

PressDown == Down(Pointer, PressMaxCreated)

PressMove == Move(Pointer, PressMaxMoves)

PressNext == PressPass \/ PressTick \/ PressDown \/ PressMove \/ MouseUp

SpecPress == PressInit /\ [][PressNext]_vars

(***************************************************************************)
(* The claims                                                              *)
(***************************************************************************)
\* elapsed times that are multiples of maxTimeDelta
Segments == {maxTimeDelta, 2 * maxTimeDelta}

\* elapsed times of one update()
Elapsed == {5, maxTimeDelta, 2 * maxTimeDelta}

Positions(h) == [id \in DOMAIN h |-> h[id].position]

\* what the claims call the state of a body
Observable(h) ==
    [id \in DOMAIN h |->
        [position |-> h[id].position, parameters |-> h[id].parameters,
         path |-> h[id].path]]

\* the bodies after update() has integrated timeDelta, in visiting order array
After(h, array, timeDelta) == updateBodies(h, array, timeDelta).heap

\* the orders in which the bodies of the collection can be arranged
Orderings ==
    {[i \in 1..Len(bodyes) |-> bodyes[p[i]]] : p \in Permutations(1..Len(bodyes))}

\* C1: advancing by T in one update() leaves every body at the position
\* that advancing by T in two update() calls does, when both parts are
\* multiples of maxTimeDelta, for any number of bodies.
C1_SplitUpdateSamePositions ==
    \A t1 \in Segments, t2 \in Segments :
        Positions(After(After(heap, bodyes, t1), bodyes, t2))
            = Positions(After(heap, bodyes, t1 + t2))

\* C2: the position, parameters and path of every body after update() are
\* the same for every ordering of the bodies in the collection.
C2_OrderIndependent ==
    \A t \in Elapsed : \A array \in Orderings :
        Observable(After(heap, array, t)) = Observable(After(heap, bodyes, t))

\* C3: two bodies of equal mass that start at rest at mirrored positions
\* are at mirrored positions (about the same midpoint) after any number of
\* update() calls.
C3_MirrorSymmetry ==
    scene \in {"pair", "diagonal"} =>
        addVectors(heap[1].position, heap[2].position)
            = addVectors(Scene(scene)[1].position, Scene(scene)[2].position)

\* C4: after N > 255 assignments to a body's position its path is the 255
\* positions held before each of the last 255 assignments, oldest first,
\* so that its first entry is the position of 255 moves ago.
C4_PathIsLast255 ==
    \A id \in DOMAIN heap :
        LET n == Len(heap[id].held) - 1
        IN  n > maxPathLength =>
                heap[id].path = SubSeq(heap[id].held, n - maxPathLength + 1, n)

\* a body was assigned more than 255 positions, and where it was 255 moves
\* ago differs from where it was 256 moves ago
C4_Witness ==
    \E id \in DOMAIN heap :
        LET n == Len(heap[id].held) - 1
        IN  /\ n > maxPathLength
            /\ heap[id].held[n - maxPathLength + 1] # heap[id].held[n - maxPathLength]
            /\ id \in {bodyes[i] : i \in 1..Len(bodyes)}

\* C5: no path is ever longer than 255, and an assignment to the position
\* of a body whose path is full evicts exactly the oldest entry.
C5_PathBounded ==
    \A id \in DOMAIN heap :
        /\ Len(heap[id].path) <= maxPathLength
        /\ setPosition(heap[id], Zero).path
             = (IF Len(heap[id].path) = maxPathLength
                THEN Tail(heap[id].path)
                ELSE heap[id].path) \o <<heap[id].position>>

\* a body made and dragged with the mouse, then released, has a full path
\* from which update() evicted entries
C5_Witness ==
    \E i \in 1..Len(bodyes) :
        /\ bodyes[i] > Len(Scene(scene))
        /\ Len(heap[bodyes[i]].path) = maxPathLength
        /\ Len(heap[bodyes[i]].held) > maxPathLength + 2
        /\ heap[bodyes[i]].path[1] # heap[bodyes[i]].held[1]

\* C6: an update() with no elapsed time runs no sub-step and changes no
\* field of any body.
C6_ZeroElapsedNoOp ==
    [][(ticks' = ticks + 1 /\ (clock - timeOffset) * speed = 0)
          => heap' = heap]_vars

\* update() has run with no elapsed time on a collection that is not empty
C6_Witness ==
    /\ ticks > 0
    /\ lastElapsed = 0
    /\ Len(bodyes) > 0

\* C7: a body alone in the collection, at rest and with no baseVelocity,
\* has no force after any sub-step and stays where it was.
C7_LoneBodyStasis ==
    scene = "lone" =>
        /\ heap[1].position = Scene("lone")[1].position
        /\ heap[1].force = Zero
        /\ \A t \in Elapsed :
               subStep([heap |-> heap, thrown |-> FALSE], bodyes, 1, t)
                   .heap[1].force = Zero

\* the lone body went through several sub-steps
C7_Witness ==
    /\ scene = "lone"
    /\ lastElapsed >= 2 * maxTimeDelta
    /\ Len(heap[1].path) >= 2

\* C8: whenever update() runs a sub-step, every body of the collection has
\* a mass > 0.
C8_MassPositiveInSubStep ==
    [][(ticks' = ticks + 1 /\ chunkCount((clock - timeOffset) * speed) > 0)
          => \A i \in 1..Len(bodyes) : heap[bodyes[i]].mass > 0]_vars

\* C9: the collection holds no body twice.
C9_NoDuplicateBodies ==
    \A i \in 1..Len(bodyes), j \in 1..Len(bodyes) :
        i # j => bodyes[i] # bodyes[j]

\* a body made with the mouse has entered the collection
C9_Witness ==
    /\ Len(bodyes) > Len(Scene(scene))
    /\ editedBody = 0

\* C10: the elapsed times of the update() calls sum to the time between
\* construction and the last-update timestamp, times the speed.
C10_NoTimeDropped ==
    integrated = (timeOffset - anchor) * speed

\* the bodies that exist and are not in the engine's collection
Outside == DOMAIN heap \ {bodyes[i] : i \in 1..Len(bodyes)}

\* C11: computeForce, computeAcceleration, computeVelocity and
\* computeMovement, called for a body that is not in the collection, throw
\* "Can't find body" and leave every body as it was.
C11_MissingBodyThrows ==
    \A body \in Outside :
        LET m == [heap |-> heap, thrown |-> FALSE]
        IN  /\ computeForce(m, bodyes, body) = [heap |-> heap, thrown |-> TRUE]
            /\ computeAcceleration(m, bodyes, body).thrown
            /\ \A timeDelta \in Elapsed :
                 /\ computeVelocity(m, bodyes, body, timeDelta, Zero).thrown
                 /\ computeMovement(m, bodyes, body, timeDelta, Zero).thrown
                 /\ subStep(m, bodyes, body, timeDelta)
                      = [heap |-> heap, thrown |-> TRUE]

\* a body that was dragged and has a mass is outside a collection that is
\* not empty
C11_Witness ==
    /\ editedBody \in Outside
    /\ heap[editedBody].mass > 0
    /\ Len(heap[editedBody].path) > 0
    /\ Len(bodyes) > 0

IsFiniteParameters(parameters) ==
    /\ IsFinitePoint(parameters.acceleration)
    /\ IsFinitePoint(parameters.velocity)
    /\ IsFinitePoint(parameters.baseVelocity)
    /\ IsFinitePoint(parameters.movement)

\* C12: when every body of the collection has a mass > 0 and a finite
\* position and finite parameters, a sub-step of any of them leaves it with
\* a finite force, position and parameters, wherever the bodies are.
C12_SubStepFinite ==
    (\A i \in 1..Len(bodyes) :
        /\ heap[bodyes[i]].mass > 0
        /\ IsFinitePoint(heap[bodyes[i]].position)
        /\ IsFiniteParameters(heap[bodyes[i]].parameters))
    => \A i \in 1..Len(bodyes) : \A timeDelta \in Elapsed :
           LET body == subStep([heap |-> heap, thrown |-> FALSE], bodyes,
                               bodyes[i], timeDelta).heap[bodyes[i]]
           IN  /\ IsFinitePoint(body.force)
               /\ IsFinitePoint(body.position)
               /\ IsFiniteParameters(body.parameters)

\* C13: a pass of update() is one uninterrupted step: the step that puts a
\* body into the collection is not a timer tick and runs no sub-step (it
\* changes no body and not the last-update timestamp), and a timer tick
\* leaves the collection as it is.
C13_InsertOnlyBetweenPasses ==
    [][bodyes' # bodyes
          => (ticks' = ticks /\ heap' = heap /\ timeOffset' = timeOffset)]_vars

\* a body was put into the collection and update() has since run sub-steps
C13_Witness ==
    /\ Len(bodyes) > Len(Scene(scene))
    /\ editedBody = 0
    /\ ticks >= 2
    /\ lastElapsed > 0
    /\ Len(heap[bodyes[Len(bodyes)]].held) > 1

\* C14: the collection is append-only: a step leaves it as it is or adds
\* one body at its end, and update() (a timer tick) leaves it as it is.
C14_AppendOnly ==
    [][\/ bodyes' = bodyes
       \/ /\ Len(bodyes') = Len(bodyes) + 1
          /\ SubSeq(bodyes', 1, Len(bodyes)) = bodyes
          /\ ticks' = ticks]_vars

\* a body made with the mouse is the last of a collection that update()
\* has integrated
C14_Witness ==
    /\ Len(Scene(scene)) > 0
    /\ Len(bodyes) = Len(Scene(scene)) + 1
    /\ bodyes[Len(bodyes)] = Len(Scene(scene)) + 1
    /\ ticks > 0

\* C15 (as stated), for the bodies no force acts on, whose arithmetic is
\* exact here: after an assignment to a body's position the last entry of
\* its path is the position it had before, is not the current position,
\* and the current position is nowhere in the path.
C15_CurrentPositionNotInPath ==
    scene \in {"lone", "drift"} =>
        \A id \in DOMAIN heap :
            LET body == heap[id]
                n == Len(body.held)
            IN  n > 1 =>
                    /\ body.path # << >>
                    /\ body.path[Len(body.path)] = body.held[n - 1]
                    /\ body.path[Len(body.path)] # body.position
                    /\ \A k \in 1..Len(body.path) : body.path[k] # body.position

\* C15 (amended): after an assignment to a body's position the last entry
\* of its path is the position the body had just before the assignment.
C15_PathLagsPosition ==
    \A id \in DOMAIN heap :
        LET body == heap[id]
            n == Len(body.held)
        IN  n > 1 =>
                /\ body.path # << >>
                /\ body.path[Len(body.path)] = body.held[n - 1]

\* a body was moved several times, the last time to another position
C15_Witness ==
    \E id \in DOMAIN heap :
        /\ Len(heap[id].path) >= 2
        /\ heap[id].path[Len(heap[id].path)] # heap[id].position
        /\ IsFinitePoint(heap[id].position)

\* C16: when the collection holds two bodies of mass > 0 and B has the
\* greater x-coordinate, computeForce leaves A with a force whose x is > 0
\* and B with a force whose x is < 0.
C16_ForcePullsTogether ==
    \A a \in 1..Len(bodyes), b \in 1..Len(bodyes) :
        LET A == heap[bodyes[a]]
            B == heap[bodyes[b]]
            m == [heap |-> heap, thrown |-> FALSE]
            onA == computeForce(m, bodyes, bodyes[a]).heap[bodyes[a]].force
            onB == computeForce(m, bodyes, bodyes[b]).heap[bodyes[b]].force
        IN  (/\ Len(bodyes) = 2
             /\ A.mass > 0 /\ B.mass > 0
             /\ IsFinitePoint(A.position) /\ IsFinitePoint(B.position)
             /\ A.position.x < B.position.x)
            => /\ IsFinite(onA.x) /\ onA.x > 0
               /\ IsFinite(onB.x) /\ onB.x < 0

\* two bodies that update() has moved, at different heights, the second to
\* the right of the first
C16_Witness ==
    /\ Len(bodyes) = 2
    /\ lastElapsed > 0
    /\ IsFinitePoint(heap[bodyes[1]].position)
    /\ IsFinitePoint(heap[bodyes[2]].position)
    /\ heap[bodyes[1]].position.x < heap[bodyes[2]].position.x
    /\ heap[bodyes[1]].position.y # heap[bodyes[2]].position.y
    /\ heap[bodyes[2]].position # Scene(scene)[2].position
    /\ heap[bodyes[1]].force.x > 0

\* C17: resetTimeOffset() sets the last-update timestamp to now and changes
\* nothing else (no body, not the collection, not the speed), and the
\* update() that follows a reset integrates the time elapsed since the
\* reset, times the speed.
C17_ResetReanchors ==
    [][/\ (ticks' = ticks /\ timeOffset' # timeOffset)
            => /\ timeOffset' = clock
               /\ anchor' = clock
               /\ heap' = heap
               /\ bodyes' = bodyes
               /\ speed' = speed
               /\ clock' = clock
       /\ (ticks' = ticks + 1 /\ timeOffset = anchor /\ ~uncaught')
            => /\ lastElapsed' = (clock - anchor) * speed
               /\ heap' = After(heap, bodyes, (clock - anchor) * speed)]_vars

\* after a reset that dropped time, update() has integrated the time since
\* the reset
C17_Witness ==
    /\ anchor > 0
    /\ ticks > 0
    /\ lastElapsed > 0
    /\ integrated = lastElapsed
    /\ Len(bodyes) > 0
    /\ \E i \in 1..Len(bodyes) : Len(heap[bodyes[i]].path) > 0

\* C18: update() runs to its end without an error and gives every body of
\* the collection exactly ceil(elapsed / 10) sub-steps, and none when
\* elapsed <= 0 (a sub-step is one assignment to the body's position).
C18_SubStepCount ==
    [][ticks' = ticks + 1
          => LET elapsed == (clock - timeOffset) * speed
                 count == IF elapsed <= 0 THEN 0
                          ELSE (elapsed + maxTimeDelta - 1) \div maxTimeDelta
             IN  /\ ~uncaught'
                 /\ lastElapsed' = elapsed
                 /\ \A i \in 1..Len(bodyes) :
                      Len(heap'[bodyes[i]].held)
                          = Len(heap[bodyes[i]].held) + count]_vars

\* update() has run several sub-steps, the last one shorter than the others
C18_Witness ==
    /\ ticks > 0
    /\ lastElapsed > maxTimeDelta
    /\ lastElapsed % maxTimeDelta # 0
    /\ Len(bodyes) > 1
    /\ \A i \in 1..Len(bodyes) : Len(heap[bodyes[i]].path) >= 2

\* durations of one sub-step
Durations == {5, maxTimeDelta}

\* (first + second) * dt / 2 per axis, dt in milliseconds
HalfSum(first, second, dt) ==
    DOMPoint(DDiv(DMul(DAdd(first.x, second.x), dt), 2 * timeUnit),
             DDiv(DMul(DAdd(first.y, second.y), dt), 2 * timeUnit))

\* C19: a sub-step of duration dt of a body at p with parameters
\* (a0, v0, b, m0), whose force divided by its mass is a, computes
\* dv = (a0 + a) * dt / 2 and dm = (v0 + dv + b) * dt / 2 and leaves the
\* body at p + dm with parameters (a, v0 + dv, b, m0 + dm).
C19_SubStepFormula ==
    \A i \in 1..Len(bodyes) : \A dt \in Durations :
        LET old == heap[bodyes[i]]
            new == subStep([heap |-> heap, thrown |-> FALSE], bodyes,
                           bodyes[i], dt).heap[bodyes[i]]
            a == DOMPoint(DDiv(new.force.x, old.mass),
                          DDiv(new.force.y, old.mass))
            dv == HalfSum(old.parameters.acceleration, a, dt)
            dm == HalfSum(old.parameters.velocity,
                          addVectors(dv, old.parameters.baseVelocity), dt)
        IN  old.mass > 0 =>
                /\ new.position = addVectors(dm, old.position)
                /\ new.parameters.acceleration = a
                /\ new.parameters.velocity
                     = addVectors(dv, old.parameters.velocity)
                /\ new.parameters.baseVelocity = old.parameters.baseVelocity
                /\ new.parameters.movement
                     = addVectors(dm, old.parameters.movement)

\* a body with an acceleration, a velocity, a baseVelocity and a movement,
\* none of them zero, is attracted by another
C19_Witness ==
    \E i \in 1..Len(bodyes) :
        LET parameters == heap[bodyes[i]].parameters
        IN  /\ Len(bodyes) > 1
            /\ IsFiniteParameters(parameters)
            /\ parameters.acceleration # Zero
            /\ parameters.velocity # Zero
            /\ parameters.baseVelocity # Zero
            /\ parameters.movement # Zero
            /\ heap[bodyes[i]].force # Zero

\* the time an update() called in this state would integrate
Pending == (clock - timeOffset) * speed

RECURSIVE SumOfDurations(_, _)
\* the sum of the durations of the sub-steps chunk = 0 .. chunks - 1
SumOfDurations(timeDelta, chunks) ==
    IF chunks <= 0 THEN 0
    ELSE SumOfDurations(timeDelta, chunks - 1)
             + computedTimeDelta(timeDelta, chunks - 1)

\* C20: in an update() with elapsed > 0 every sub-step lasts more than 0
\* and at most 10 ms, only the last may last less than 10 ms, and the
\* durations sum to elapsed.  The drifting body, which moves by
\* baseVelocity * dt / 2 = dt / 5 pixels in a sub-step of dt ms, shows the
\* duration of each of its sub-steps.
C20_SubStepDurations ==
    Pending > 0 =>
        LET count == chunkCount(Pending)
        IN  /\ \A chunk \in 0..(count - 1) :
                 /\ computedTimeDelta(Pending, chunk) > 0
                 /\ computedTimeDelta(Pending, chunk) <= maxTimeDelta
                 /\ chunk < count - 1
                      => computedTimeDelta(Pending, chunk) = maxTimeDelta
            /\ SumOfDurations(Pending, count) = Pending
            /\ scene = "drift" =>
                 LET now == Len(heap[1].held)
                     after == After(heap, bodyes, Pending)[1].held
                 IN  /\ Len(after) = now + count
                     /\ \A chunk \in 0..(count - 1) :
                          5 * (after[now + chunk + 1].x - after[now + chunk].x)
                              = computedTimeDelta(Pending, chunk)

\* update() is about to integrate a time that is more than one sub-step
\* and not a whole number of them, after an earlier update()
C20_Witness ==
    /\ scene = "drift"
    /\ ticks > 0
    /\ Pending > maxTimeDelta
    /\ Pending % maxTimeDelta # 0

\* the pull of the body other on the body self: G * m1 * m2 / distance^2,
\* directed from self to other
Pull(self, other) ==
    LET dist == distance(self.position, other.position)
    IN  forceVector(formula(self.mass, other.mass, dist),
                    DSub(other.position.x, self.position.x),
                    DSub(other.position.y, self.position.y), dist)

RECURSIVE SumOfPulls(_, _, _, _)
\* the sum of the pulls on the body at index self (from 1) of the bodies at
\* the indices 1 .. last other than self
SumOfPulls(h, array, self, last) ==
    IF last = 0 THEN Zero
    ELSE IF last = self THEN SumOfPulls(h, array, self, last - 1)
    ELSE addVectors(SumOfPulls(h, array, self, last - 1),
                    Pull(h[array[self]], h[array[last]]))

\* forces a body may be given between two sub-steps
Forces == {DOMPoint(7, -3), DOMPoint(NaN, PosInf)}

\* C21: after computeForce the force of a body is the sum of the pulls of
\* the other bodies of the collection, whatever force the body held before
\* (the one the last sub-step left, or one given by setForce or addForce).
C21_ForceRebuilt ==
    \A i \in 1..Len(bodyes) :
        LET m == [heap |-> heap, thrown |-> FALSE]
            given == {m}
                \cup {[m EXCEPT !.heap[bodyes[i]] = setForce(@, force)] :
                        force \in Forces}
                \cup {[m EXCEPT !.heap[bodyes[i]] = addForce(@, force)] :
                        force \in Forces}
        IN  {computeForce(before, bodyes, bodyes[i]).heap[bodyes[i]].force :
                before \in given}
              = {SumOfPulls(heap, bodyes, i, Len(bodyes))}

\* a body among several holds the force that its last sub-step left
C21_Witness ==
    /\ Len(bodyes) > 2
    /\ lastElapsed > 0
    /\ \E i \in 1..Len(bodyes) :
         /\ IsFinitePoint(heap[bodyes[i]].force)
         /\ heap[bodyes[i]].force # Zero

\* C22: update() never changes the base velocity or the mass of a body:
\* after any number of updates both are what they were when the body
\* entered the collection.
C22_BaseVelocityAndMassKept ==
    \A i \in 1..Len(bodyes) :
        /\ heap[bodyes[i]].parameters.baseVelocity
             = Scene(scene)[i].parameters.baseVelocity
        /\ heap[bodyes[i]].mass = Scene(scene)[i].mass

\* two updates have accelerated a body which has a base velocity
C22_Witness ==
    /\ ticks > 1
    /\ \E i \in 1..Len(bodyes) :
         /\ heap[bodyes[i]].parameters.baseVelocity # Zero
         /\ heap[bodyes[i]].parameters.velocity # Zero
         /\ heap[bodyes[i]].position # Scene(scene)[i].position

\* the functions which the program registers as update handlers
Handlers == {"draw", "addBodyMass"}

\* the registrations of handlers other than handler, in order
Others(handlers, handler) ==
    LET Other(registered) == registered # handler
    IN  SelectSeq(handlers, Other)

\* the number of registrations of handler
Registrations(handlers, handler) ==
    Len(handlers) - Len(Others(handlers, handler))

\* C23: removeEventListener("update", h) leaves every registration of
\* another handler in place and in order, wherever h is in the list and
\* whether h is registered or not, and takes a registration of h away if
\* there is one.
C23_RemovesOnlyHandler ==
    \A handler \in Handlers :
        LET removed == removeEventListener(onUpdate, handler)
        IN  /\ Others(removed, handler) = Others(onUpdate, handler)
            /\ \/ Registrations(onUpdate, handler) = 0
               \/ Registrations(removed, handler)
                    < Registrations(onUpdate, handler)

\* C24: the handler list holds one registration of addBodyMass while a body
\* is edited and none otherwise, also after a second mousedown with no
\* mouseup between; a tick adds weightUnit / 50 to the mass of the body
\* edited throughout it, and the mass of a body of the collection never
\* changes.
C24_OneRegistrationWhileEdited ==
    [][/\ Registrations(onUpdate, "addBodyMass")
            = (IF editedBody # 0 THEN 1 ELSE 0)
       /\ (ticks' = ticks + 1 /\ editedBody # 0)
            => heap'[editedBody].mass
                 = heap[editedBody].mass + weightUnit \div 50
       /\ \A i \in 1..Len(bodyes) :
            heap'[bodyes[i]].mass = heap[bodyes[i]].mass]_vars

\* C25: whatever the mouse has done, draw is registered, once, so that
\* every timer tick calls update() once: the update sees all the time
\* elapsed since the last one and leaves the timestamp at the present.
C25_DrawStaysRegistered ==
    [][/\ Registrations(onUpdate, "draw") = 1
       /\ ticks' = ticks + 1
            => /\ lastElapsed' = (clock - timeOffset) * speed
               /\ timeOffset' = clock']_vars

\* a body pressed twice and released has been moved by a later tick
C25_Witness ==
    /\ editedBody = 0
    /\ Cardinality(DOMAIN heap) = Len(Scene(scene)) + 2
    /\ Len(bodyes) = Len(Scene(scene)) + 1
    /\ Len(heap[bodyes[Len(bodyes)]].held) > PressMaxMoves + 1
    /\ lastElapsed > 0

\* C26: no tick has made update() throw "Can't find body", and the update
\* of the time now pending would not throw it either.
C26_UpdateNeverThrows ==
    /\ ~uncaught
    /\ ~updateBodies(heap, bodyes, Pending).thrown

\* a tick has run while a body was edited, outside a collection which holds
\* a body released before
C26_Witness ==
    /\ editedBody \in Outside
    /\ heap[editedBody].mass > 0
    /\ Len(bodyes) > Len(Scene(scene))
    /\ lastElapsed > 0

HalfOf(b, dt) == DOMPoint(Quot(b.x * dt, 2 * timeUnit),
                          Quot(b.y * dt, 2 * timeUnit))

\* C28: a body alone in the collection, with a mass above zero, no stored
\* acceleration or velocity and the base velocity b, is displaced by
\* b * dt / 2 by a sub-step of dt and by b * T / 2 by an update() of T, and
\* its stored velocity and acceleration stay zero: so it is after any
\* number of updates.
C28_LoneBodyDrifts ==
    (/\ Len(bodyes) = 1
     /\ Scene(scene)[1].mass > 0
     /\ Scene(scene)[1].parameters.acceleration = Zero
     /\ Scene(scene)[1].parameters.velocity = Zero)
    => LET old == heap[bodyes[1]]
           b == Scene(scene)[1].parameters.baseVelocity
           Still(body) == /\ body.parameters.velocity = Zero
                          /\ body.parameters.acceleration = Zero
       IN  /\ Still(old)
           /\ \A dt \in Durations :
                LET new == subStep([heap |-> heap, thrown |-> FALSE], bodyes,
                                   bodyes[1], dt).heap[bodyes[1]]
                IN  /\ new.position = addVectors(HalfOf(b, dt), old.position)
                    /\ Still(new)
           /\ \A timeDelta \in Elapsed \cup {Pending} :
                LET new == After(heap, bodyes, timeDelta)[bodyes[1]]
                IN  /\ timeDelta >= 0
                      => new.position
                           = addVectors(HalfOf(b, timeDelta), old.position)
                    /\ Still(new)

\* updates have carried a lone body along its base velocity, both ways
C28_Witness ==
    /\ Len(bodyes) = 1
    /\ heap[bodyes[1]].parameters.baseVelocity.x > 0
    /\ heap[bodyes[1]].parameters.baseVelocity.y < 0
    /\ heap[bodyes[1]].position.x > Scene(scene)[1].position.x
    /\ heap[bodyes[1]].position.y < Scene(scene)[1].position.y
    /\ Len(heap[bodyes[1]].held) > 2
    /\ Pending > maxTimeDelta

\* C29: the edited body is outside the engine's collection as long as it is
\* edited; a mouseup while a body is edited appends that body, and nothing
\* else, to the collection and leaves no body edited; a mouseup while no
\* body is edited changes nothing; and nothing else changes the collection.
C29_EditedBodyOutside ==
    [][/\ editedBody # 0 => editedBody \in Outside
       /\ MouseUp =>
            IF editedBody # 0
            THEN /\ bodyes' = Append(bodyes, editedBody)
                 /\ editedBody' = 0
                 /\ heap' = heap
            ELSE UNCHANGED vars
       /\ bodyes' # bodyes => MouseUp /\ editedBody # 0]_vars

\* a second body is pressed and dragged after the first was released
C29_Witness ==
    /\ editedBody # 0
    /\ Len(bodyes) = Len(Scene(scene)) + 1
    /\ bodyes[Len(bodyes)] # editedBody
    /\ Len(heap[editedBody].path) > 0

\* C30: whenever the mouse events come, the baseVelocity which
\* mouseMoveHandler gives the edited body is a finite vector: no
\* displacement is divided by a time delta of zero.
C30_DragVelocityFinite ==
    editedBody # 0 => IsFinitePoint(heap[editedBody].parameters.baseVelocity)

=============================================================================
